---- MODULE Spec2Model ----
(***************************************************************************)
(* Model of TK.py: a monitor that periodically fetches one page, extracts  *)
(* actor profiles from it, stores the ones it has not seen in an sqlite    *)
(* table and sends a Telegram notification for each new one.               *)
(*                                                                         *)
(* Strings are sequences of one-character strings, so that startswith,     *)
(* substring tests and concatenation are computed as Python computes them. *)
(* An optional value (None in Python, a missing tag or attribute) is the   *)
(* empty sequence; a present value x is <<x>>.                             *)
(***************************************************************************)
EXTENDS Integers, Sequences, FiniteSets, TLC

VARIABLES
    page,          \* the document of the last fetch: a sequence of <div> blocks
    profiles,      \* current_profiles: the list extract_profiles returned
    db,            \* profiles.db: [exists |-> table created, rows |-> rows in id order]
    pc,            \* position of the running monitor_task, "idle" between cycles
    new_profiles,  \* the list get_new_profiles returned to monitor_task
    idx,           \* index in new_profiles of the profile send_notification is at
    cycle,         \* number of monitor_task runs started; also the clock of created_at
    sent,          \* the bot calls of the current cycle, in order
    calls,         \* the save_profile calls of the current cycle, in order
    cur,           \* what happened in the current (or last) cycle
    seen,          \* urls extracted in all cycles so far
    handed,        \* the bot calls of all cycles: [url, cycle, fallback, ok]
    submitted,     \* urls save_profile was called with so far
    inserted,      \* the rows for which save_profile returned True so far
    reply,         \* outcome of the last /ping
    faults,        \* failures of the page, the store and the bot so far
    status,        \* status code of the last response, NoResponse when none came
    restarts       \* the process restarts so far: [cycle, lost]

vars == <<page, profiles, db, pc, new_profiles, idx, cycle, sent, calls, cur,
          seen, handed, submitted, inserted, reply, faults, status, restarts>>

-----------------------------------------------------------------------------
(* Bounds *)

MaxPageLen == 3     \* blocks per document when extraction is checked alone
MaxSiteLen == 2     \* blocks per document in the monitor runs
MaxCycles  == 2     \* monitor_task runs per behaviour
MaxRestarts == 1    \* process restarts per behaviour
MaxFaults  == 2     \* failures of the page, the store and the bot per behaviour

-----------------------------------------------------------------------------
(* Strings *)

None == <<>>
Some(x) == <<x>>

StartsWith(s, p) == Len(s) >= Len(p) /\ SubSeq(s, 1, Len(p)) = p

\* Python's `sub in s`
Contains(s, sub) ==
    \E i \in 1..(Len(s) + 1) :
        i + Len(sub) - 1 <= Len(s) /\ SubSeq(s, i, i + Len(sub) - 1) = sub

IsSpace(c) == c \in {" ", "\n", "\t"}

RECURSIVE lstrip(_)
lstrip(s) == IF s # <<>> /\ IsSpace(Head(s)) THEN lstrip(Tail(s)) ELSE s

RECURSIVE rstrip(_)
rstrip(s) ==
    IF s # <<>> /\ IsSpace(s[Len(s)]) THEN rstrip(SubSeq(s, 1, Len(s) - 1)) ELSE s

\* str.strip()
strip(s) == rstrip(lstrip(s))

HTTP == <<"h","t","t","p">>

\* 'https://www.kino-teatr.ru', the literal of lines 78 and 88
SITE_PREFIX ==
    <<"h","t","t","p","s",":","/","/","w","w","w",".","k","i","n","o","-",
      "t","e","a","t","r",".","r","u">>

ACTOR_ITEM  == <<"a","c","t","o","r","-","i","t","e","m">>
PERSON_ITEM == <<"p","e","r","s","o","n","-","i","t","e","m">>
ITEM == <<"i","t","e","m">>
CARD == <<"c","a","r","d">>
NAME == <<"n","a","m","e">>
TITLE == <<"t","i","t","l","e">>

\* "Неизвестно", transliterated
UNKNOWN_NAME == <<"N","e","i","z","v","e","s","t","n","o">>

-----------------------------------------------------------------------------
(* The document.  A block is a <div>:                                      *)
(*   classes  the tokens of its class attribute ({} when it has none)      *)
(*   a        its first <a>, if any: [href |-> optional string]            *)
(*   names    its h3/h4/div descendants that carry a class, in document    *)
(*            order: [classes |-> tokens, text |-> string]                 *)
(*   img      its first <img>, if any: [src |-> optional string]           *)

\* soup.find_all('div', class_=['actor-item', 'person-item'])
primary_match(block) ==
    \E c \in block.classes : c \in {ACTOR_ITEM, PERSON_ITEM}

\* class_=lambda x: x and ('item' in x or 'card' in x)
secondary_match(block) ==
    \E c \in block.classes : Contains(c, ITEM) \/ Contains(c, CARD)

profile_blocks_primary_only(doc) == SelectSeq(doc, primary_match)

\* lines 63-67
profile_blocks(doc) ==
    LET blocks == SelectSeq(doc, primary_match)
    IN  IF blocks = <<>> THEN SelectSeq(doc, secondary_match) ELSE blocks

\* line 73: `not link_tag or not link_tag.get('href')` is false
has_link(block) ==
    /\ block.a # None
    /\ block.a[1].href # None
    /\ block.a[1].href[1] # <<>>

\* lines 76-78 and 87-88
absolutize(u) == IF StartsWith(u, HTTP) THEN u ELSE SITE_PREFIX \o u

name_match(tag) ==
    \E c \in tag.classes : Contains(c, NAME) \/ Contains(c, TITLE)

\* lines 81-82
block_name(block) ==
    LET tags == SelectSeq(block.names, name_match)
    IN  IF tags = <<>> THEN UNKNOWN_NAME ELSE strip(tags[1].text)

\* lines 85-88
block_photo(block) ==
    IF block.img # None /\ block.img[1].src # None /\ block.img[1].src[1] # <<>>
    THEN Some(absolutize(block.img[1].src[1]))
    ELSE None

\* lines 76-94, for a block that has a link
block_profile(block) ==
    [url   |-> absolutize(block.a[1].href[1]),
     name  |-> block_name(block),
     photo |-> block_photo(block)]

RECURSIVE parse_blocks_abort(_)
parse_blocks_abort(blocks) ==
    IF blocks = <<>> THEN <<>>
    ELSE IF ~has_link(Head(blocks)) THEN <<>>
    ELSE <<block_profile(Head(blocks))>> \o parse_blocks_abort(Tail(blocks))

\* the loop of lines 69-98
RECURSIVE parse_blocks(_)
parse_blocks(blocks) ==
    IF blocks = <<>> THEN <<>>
    ELSE IF ~has_link(Head(blocks)) THEN parse_blocks(Tail(blocks))
    ELSE <<block_profile(Head(blocks))>> \o parse_blocks(Tail(blocks))

\* requests.get raised (timeout, DNS, connection reset): there is no response
NoResponse == 0

\* line 56: Response.raise_for_status raises HTTPError for a client error
\* (400-499) and for a server error (500-599), and for no other status
raise_for_status(code) == 400 <= code /\ code < 600

extract_profiles_ignore_status(response) ==
    parse_blocks(profile_blocks(response.doc))

\* lines 47-105; response is what requests.get at line 55 gave: its status
\* code (NoResponse when the call raised) and the body.  The except at
\* lines 103-105 turns either exception into the empty list
extract_profiles(response) ==
    IF response.status = NoResponse \/ raise_for_status(response.status) THEN <<>>
    ELSE parse_blocks(profile_blocks(response.doc))

-----------------------------------------------------------------------------
(* The store: table tracked_profiles of profiles.db *)

StoreOutcomes == {"ok", "exec_error", "connect_error"}

HasUrl(rows, u) == \E i \in 1..Len(rows) : rows[i].profile_url = u

\* lines 30-45: CREATE TABLE IF NOT EXISTS.  raised: sqlite3 raised, which
\* nothing in init_database catches
init_database_recreate(d, outcome) ==
    IF outcome # "ok" THEN [db |-> d, raised |-> TRUE]
    ELSE [db |-> [exists |-> TRUE, rows |-> <<>>], raised |-> FALSE]

init_database(d, outcome) ==
    IF outcome # "ok" THEN [db |-> d, raised |-> TRUE]
    ELSE [db |-> [exists |-> TRUE, rows |-> d.rows], raised |-> FALSE]

save_profile_no_unique(d, profile, outcome, now) ==
    IF outcome = "connect_error"
    THEN [db |-> d, is_new |-> FALSE, raised |-> TRUE]
    ELSE IF outcome = "exec_error" \/ ~d.exists
    THEN [db |-> d, is_new |-> FALSE, raised |-> FALSE]
    ELSE LET row == [profile_url |-> profile.url, name |-> profile.name,
                     photo_url |-> profile.photo, created_at |-> now]
         IN  [db |-> [d EXCEPT !.rows = Append(d.rows, row)],
              is_new |-> TRUE, raised |-> FALSE]

save_profile_replace(d, profile, outcome, now) ==
    IF outcome = "connect_error"
    THEN [db |-> d, is_new |-> FALSE, raised |-> TRUE]
    ELSE IF outcome = "exec_error" \/ ~d.exists
    THEN [db |-> d, is_new |-> FALSE, raised |-> FALSE]
    ELSE LET row == [profile_url |-> profile.url, name |-> profile.name,
                     photo_url |-> profile.photo, created_at |-> now]
             keep(r) == r.profile_url # profile.url
         IN  [db |-> [d EXCEPT !.rows = Append(SelectSeq(d.rows, keep), row)],
              is_new |-> TRUE, raised |-> FALSE]

\* lines 107-126: INSERT OR IGNORE on the UNIQUE profile_url; is_new is
\* cursor.rowcount > 0.  sqlite3.connect (line 109) is outside the try, so
\* its failure is raised to the caller; a failure of execute or commit is
\* caught and gives False
save_profile(d, profile, outcome, now) ==
    IF outcome = "connect_error"
    THEN [db |-> d, is_new |-> FALSE, raised |-> TRUE]
    ELSE IF outcome = "exec_error" \/ ~d.exists
    THEN [db |-> d, is_new |-> FALSE, raised |-> FALSE]
    ELSE IF HasUrl(d.rows, profile.url)
    THEN [db |-> d, is_new |-> FALSE, raised |-> FALSE]
    ELSE LET row == [profile_url |-> profile.url, name |-> profile.name,
                     photo_url |-> profile.photo, created_at |-> now]
         IN  [db |-> [d EXCEPT !.rows = Append(d.rows, row)],
              is_new |-> TRUE, raised |-> FALSE]

\* the loop of lines 133-135 over the profiles from position i on; acc holds
\* the store, new_profiles and the calls made so far
RECURSIVE save_loop(_, _, _, _, _)
save_loop(profs, outs, i, now, acc) ==
    IF i > Len(profs) THEN acc
    ELSE LET r == save_profile(acc.db, profs[i], outs[i], now)
             call == [profile |-> profs[i], outcome |-> outs[i],
                      is_new |-> r.is_new, before |-> acc.db.rows]
         IN  IF r.raised
             THEN [acc EXCEPT !.raised = TRUE, !.calls = Append(@, call)]
             ELSE save_loop(profs, outs, i + 1, now,
                     [db     |-> r.db,
                      new    |-> IF r.is_new THEN Append(acc.new, profs[i])
                                 ELSE acc.new,
                      calls  |-> Append(acc.calls, call),
                      raised |-> FALSE])

get_new_profiles_all(d, response, outs, now) ==
    LET current_profiles == extract_profiles(response)
        r == save_loop(current_profiles, outs, 1, now,
                       [db |-> d, new |-> <<>>, calls |-> <<>>, raised |-> FALSE])
    IN  [db |-> r.db, current |-> current_profiles, new |-> current_profiles,
         calls |-> r.calls, raised |-> r.raised]

RECURSIVE Reverse(_)
Reverse(seq) == IF seq = <<>> THEN <<>> ELSE Append(Reverse(Tail(seq)), Head(seq))

get_new_profiles_reversed(d, response, outs, now) ==
    LET current_profiles == extract_profiles(response)
        r == save_loop(current_profiles, outs, 1, now,
                       [db |-> d, new |-> <<>>, calls |-> <<>>, raised |-> FALSE])
    IN  [db |-> r.db, current |-> current_profiles, new |-> Reverse(r.new),
         calls |-> r.calls, raised |-> r.raised]

\* lines 128-137
get_new_profiles(d, response, outs, now) ==
    LET current_profiles == extract_profiles(response)
        r == save_loop(current_profiles, outs, 1, now,
                       [db |-> d, new |-> <<>>, calls |-> <<>>, raised |-> FALSE])
    IN  [db |-> r.db, current |-> current_profiles, new |-> r.new,
         calls |-> r.calls, raised |-> r.raised]

-----------------------------------------------------------------------------
(* Messages *)

\* "Новый профиль актера:\n\nИмя: " and "\nСсылка: " of line 143
MSG_NEW  == <<"N","e","w",":","\n","\n","N",":"," ">>
MSG_LINK == <<"\n","L",":"," ">>
\* "Новый профиль (ошибка загрузки фото):\n" of line 165
MSG_PHOTO_ERROR == <<"N","e","w"," ","(","p","h","o","t","o"," ","e","r","r",")",":","\n">>
NL == <<"\n">>

\* line 143
message(profile) == MSG_NEW \o profile.name \o MSG_LINK \o profile.url

fallback_text_no_link(profile) == MSG_PHOTO_ERROR \o profile.name

\* line 165
fallback_text(profile) == MSG_PHOTO_ERROR \o profile.name \o NL \o profile.url

\* lines 145-155: the first bot call for a profile
first_call(profile, ok) ==
    IF profile.photo # None
    THEN [api |-> "send_photo", photo |-> profile.photo,
          text |-> message(profile), url |-> profile.url,
          fallback |-> FALSE, ok |-> ok]
    ELSE [api |-> "send_message", photo |-> None,
          text |-> message(profile), url |-> profile.url,
          fallback |-> FALSE, ok |-> ok]

\* lines 162-166: the call of the except branch
fallback_call(profile, ok) ==
    [api |-> "send_message", photo |-> None,
     text |-> fallback_text(profile), url |-> profile.url,
     fallback |-> TRUE, ok |-> ok]

-----------------------------------------------------------------------------
(* Documents *)

Div(classes, a, names, img) ==
    [classes |-> classes, a |-> a, names |-> names, img |-> img]

A(href) == Some([href |-> Some(href)])
A_NO_HREF == Some([href |-> None])
Img(src) == Some([src |-> Some(src)])
NameTag(text) == [classes |-> {NAME}, text |-> text]

HREF_A     == <<"/","a">>
HREF_A_ABS == SITE_PREFIX \o HREF_A
HREF_B     == <<"/","b">>
HREF_REL   == <<"c","/","d">>
HREF_PROTO == <<"/","/","h","/","e">>
SRC_ROOT   == <<"/","p",".","j","p","g">>
SRC_REL    == <<"i","/","p",".","j","p","g">>

\* blocks for checking extraction alone: every class kind with and without
\* a link, and a profile block with every kind of anchor, with and without
\* an image and a name tag
Blocks ==
    { Div(cl, a, <<>>, None) :
        cl \in { {ACTOR_ITEM}, {PERSON_ITEM}, {<<"x">>, CARD}, {} },
        a  \in { None, A(HREF_A) } }
    \cup
    { Div({ACTOR_ITEM}, a, im[1], im[2]) :
        a  \in { None, A_NO_HREF, A(<<>>), A(HREF_A), A(HREF_A_ABS),
                 A(HREF_REL), A(HREF_PROTO) },
        im \in { <<<<>>, None>>,
                 <<<<NameTag(<<" ","X","\n">>)>>, Img(SRC_REL)>> } }

RECURSIVE SeqsUpTo(_, _)
SeqsUpTo(S, n) ==
    IF n = 0 THEN { <<>> }
    ELSE LET shorter == SeqsUpTo(S, n - 1)
         IN  shorter \cup { Append(s, x) : s \in shorter, x \in S }

Pages == SeqsUpTo(Blocks, MaxPageLen)

\* blocks of the monitored page in the monitor runs: profile a with a photo,
\* profile a again under its absolute link with another name and no photo,
\* and profile b without name and photo
SiteBlocks ==
    { Div({ACTOR_ITEM}, A(HREF_A), <<NameTag(<<"X">>)>>, Img(SRC_ROOT)),
      Div({ACTOR_ITEM}, A(HREF_A_ABS), <<NameTag(<<"Y">>)>>, None),
      Div({ACTOR_ITEM}, A(HREF_B), <<>>, None) }

Range(s) == { s[i] : i \in 1..Len(s) }

\* the sequences of at most n elements of S in which no element repeats
RECURSIVE DistinctSeqsUpTo(_, _)
DistinctSeqsUpTo(S, n) ==
    IF n = 0 THEN { <<>> }
    ELSE LET shorter == DistinctSeqsUpTo(S, n - 1)
         IN  shorter \cup
             UNION { { Append(s, x) : x \in S \ Range(s) } : s \in shorter }

SitePages == DistinctSeqsUpTo(SiteBlocks, MaxSiteLen)

Urls(profs) == { profs[i].url : i \in 1..Len(profs) }
RowUrls(rows) == { rows[i].profile_url : i \in 1..Len(rows) }

-----------------------------------------------------------------------------
(* The monitor *)

\* cur: the fetch of the cycle ("ok", "error", or "none" when init_database
\* raised before it), whether the store never failed in it, whether an
\* exception ended it, the rows and the seen urls at its start; repeat: the
\* cycle before it started from an empty store and had no failure, and this
\* one fetched the same document; fetches_ok, stores_ok: no fetch, no store
\* operation failed in any cycle so far; failed_before: the fetch of an
\* earlier cycle failed
NoCycle ==
    [fetched |-> "none", store_ok |-> FALSE, raised |-> FALSE,
     rows0 |-> <<>>, seen0 |-> {}, repeat |-> FALSE, fetches_ok |-> TRUE,
     stores_ok |-> TRUE, failed_before |-> FALSE]

NoReply ==
    [asked |-> FALSE, replied |-> FALSE, time |-> 0, count |-> None,
     db_ok |-> FALSE, page_status |-> "none"]

Init ==
    /\ page = <<>>
    /\ profiles = <<>>
    /\ db = [exists |-> FALSE, rows |-> <<>>]
    /\ pc = "idle"
    /\ new_profiles = <<>>
    /\ idx = 1
    /\ cycle = 0
    /\ sent = <<>>
    /\ calls = <<>>
    /\ cur = NoCycle
    /\ seen = {}
    /\ handed = {}
    /\ submitted = {}
    /\ inserted = {}
    /\ reply = NoReply
    /\ faults = 0
    /\ status = NoResponse
    /\ restarts = <<>>

\* the status of the responses of the monitor runs: the page, or a server
\* error with its error page
StatusOf(fetch_ok) == IF fetch_ok THEN 200 ELSE 503

\* the body that comes with an error status; it is never parsed
ErrorBody == <<Div({ACTOR_ITEM}, A(HREF_B), <<>>, None)>>

Failed(outs) == { k \in DOMAIN outs : outs[k] # "ok" }

\* the outcomes of the store in n save_profile calls, at most k of them
\* failures
OutcomeSeqs(n, k) ==
    { f \in [1..n -> StoreOutcomes] : Cardinality(Failed(f)) <= k }

\* what the environment does in one monitor_task: whether the store opens
\* for init_database, whether the fetch succeeds and with which document,
\* and the outcome of the store in each save_profile call
InputsFor(d, n, budget) ==
    { [init_out |-> "ok", fetch_ok |-> TRUE, doc |-> d, outs |-> o] :
        o \in OutcomeSeqs(n, budget) }

CycleInputs(docs, budget) ==
    UNION { InputsFor(d, Len(extract_profiles([status |-> StatusOf(TRUE), doc |-> d])), budget) :
            d \in docs }
    \cup
    { [init_out |-> io, fetch_ok |-> FALSE, doc |-> ErrorBody,
        outs |-> [k \in 1..Len(ErrorBody) |-> "ok"]] :
        io \in IF budget > 0 THEN {"ok", "error"} ELSE {} }

\* lines 214-226 up to the first await: ProfileMonitor() runs init_database,
\* get_new_profiles fetches, extracts and saves without yielding to the
\* event loop; an exception that escapes ends the job.  docs: the documents
\* the site may serve
CycleBody(docs) ==
    /\ cycle < MaxCycles
    /\ \E in \in CycleInputs(docs, MaxFaults - faults) :
       \E i \in { init_database(db, in.init_out) } :
       \E g \in { get_new_profiles(i.db, [status |-> StatusOf(in.fetch_ok), doc |-> in.doc],
                                   in.outs, cycle + 1) } :
        LET now == cycle + 1
            raised == i.raised \/ g.raised
            returned == IF raised THEN <<>> ELSE g.new
            made == IF i.raised THEN <<>> ELSE g.calls
            failed == { k \in 1..Len(made) : made[k].outcome # "ok" }
        IN  /\ cycle' = now
            /\ db' = IF i.raised THEN db ELSE g.db
            /\ page' = IF ~i.raised /\ in.fetch_ok THEN in.doc ELSE <<>>
            /\ profiles' = IF i.raised THEN <<>> ELSE g.current
            /\ calls' = made
            /\ new_profiles' = returned
            /\ idx' = 1
            /\ pc' = IF returned # <<>> THEN "notify" ELSE "idle"
            /\ sent' = <<>>
            /\ seen' = IF i.raised THEN seen ELSE seen \cup Urls(g.current)
            /\ submitted' = submitted \cup
                                { made[k].profile.url : k \in 1..Len(made) }
            /\ inserted' = inserted \cup
                    { [profile_url |-> made[k].profile.url,
                       name        |-> made[k].profile.name,
                       photo_url   |-> made[k].profile.photo,
                       created_at  |-> now] :
                      k \in { j \in 1..Len(made) : made[j].is_new } }
            /\ cur' = [fetched  |-> IF i.raised THEN "none"
                                    ELSE IF in.fetch_ok THEN "ok" ELSE "error",
                       store_ok |-> ~i.raised /\ failed = {},
                       raised   |-> raised,
                       rows0    |-> db.rows,
                       seen0    |-> seen,
                       repeat   |-> /\ cycle >= 1
                                    /\ cur.fetched = "ok" /\ cur.store_ok
                                    /\ cur.rows0 = <<>>
                                    /\ ~i.raised /\ in.fetch_ok
                                    /\ in.doc = page,
                       fetches_ok |-> cur.fetches_ok /\ ~i.raised /\ in.fetch_ok,
                       stores_ok  |-> cur.stores_ok /\ ~i.raised /\ failed = {},
                       failed_before |-> cur.failed_before \/ cur.fetched = "error"]
            /\ faults' = faults + Cardinality(failed)
                            + (IF i.raised \/ ~in.fetch_ok THEN 1 ELSE 0)
            /\ status' = IF i.raised THEN NoResponse ELSE StatusOf(in.fetch_ok)
    /\ UNCHANGED <<handed, reply, restarts>>

\* the job queue runs monitor_task when no run of it is under way
MonitorCycle(docs) == pc = "idle" /\ CycleBody(docs)

monitor_task == MonitorCycle(SitePages)

\* the loop of line 141 moves to the next profile, or send_notification and
\* with it monitor_task return
NextProfile ==
    IF idx < Len(new_profiles)
    THEN idx' = idx + 1 /\ pc' = "notify"
    ELSE idx' = idx /\ pc' = "idle"

BotOutcomes == IF faults < MaxFaults THEN {TRUE, FALSE} ELSE {TRUE}

\* lines 142-157: the first bot call for new_profiles[idx]
send_notification ==
    /\ pc = "notify"
    /\ \E ok \in BotOutcomes :
        /\ sent' = Append(sent, first_call(new_profiles[idx], ok))
        /\ IF ok THEN NextProfile ELSE (pc' = "fallback" /\ idx' = idx)
        /\ faults' = IF ok THEN faults ELSE faults + 1
        /\ handed' = handed \cup
                { [url |-> new_profiles[idx].url, cycle |-> cycle,
                   fallback |-> FALSE, ok |-> ok] }
    /\ UNCHANGED <<page, profiles, db, new_profiles, cycle, calls, cur, seen,
                   submitted, inserted, reply,
                   status, restarts>>

send_fallback_abort ==
    /\ pc = "fallback"
    /\ \E ok \in BotOutcomes :
        /\ sent' = Append(sent, fallback_call(new_profiles[idx], ok))
        /\ faults' = IF ok THEN faults ELSE faults + 1
        /\ handed' = handed \cup
                { [url |-> new_profiles[idx].url, cycle |-> cycle,
                   fallback |-> TRUE, ok |-> ok] }
        /\ IF ok THEN NextProfile ELSE (idx' = idx /\ pc' = "idle")
    /\ UNCHANGED <<page, profiles, db, new_profiles, cycle, calls, cur, seen,
                   submitted, inserted, reply,
                   status, restarts>>

\* lines 159-168: the first call raised; one text message, whose failure is
\* only logged
send_fallback ==
    /\ pc = "fallback"
    /\ \E ok \in BotOutcomes :
        /\ sent' = Append(sent, fallback_call(new_profiles[idx], ok))
        /\ faults' = IF ok THEN faults ELSE faults + 1
        /\ handed' = handed \cup
                { [url |-> new_profiles[idx].url, cycle |-> cycle,
                   fallback |-> TRUE, ok |-> ok] }
    /\ NextProfile
    /\ UNCHANGED <<page, profiles, db, new_profiles, cycle, calls, cur, seen,
                   submitted, inserted, reply,
                   status, restarts>>

ping_command_purge ==
    /\ \E db_out \in IF faults < MaxFaults THEN {"ok", "error"} ELSE {"ok"},
          page_status \in {"200", "404", "error"} :
        LET db_ok == db_out = "ok" /\ db.exists
        IN  /\ reply' = [asked |-> TRUE, replied |-> db_ok, time |-> cycle,
                         count |-> IF db_ok THEN Some(Len(db.rows)) ELSE None,
                         db_ok |-> db_ok,
                         page_status |-> IF db_ok THEN page_status ELSE "none"]
            /\ faults' = IF db_out = "ok" THEN faults ELSE faults + 1
            /\ db' = IF db_ok THEN db ELSE [db EXCEPT !.rows = <<>>]
    /\ UNCHANGED <<page, profiles, pc, new_profiles, idx, cycle, sent,
                   calls, cur, seen, handed, submitted, inserted,
                   status, restarts>>

\* lines 170-201: count is assigned only when the query succeeds, so line 195
\* raises NameError after a store failure and no reply is sent
ping_command ==
    /\ \E db_out \in IF faults < MaxFaults THEN {"ok", "error"} ELSE {"ok"},
          page_status \in {"200", "404", "error"} :
        LET db_ok == db_out = "ok" /\ db.exists
        IN  /\ reply' = [asked |-> TRUE, replied |-> db_ok, time |-> cycle,
                         count |-> IF db_ok THEN Some(Len(db.rows)) ELSE None,
                         db_ok |-> db_ok,
                         page_status |-> IF db_ok THEN page_status ELSE "none"]
            /\ faults' = IF db_out = "ok" THEN faults ELSE faults + 1
    /\ UNCHANGED <<page, profiles, db, pc, new_profiles, idx, cycle, sent,
                   calls, cur, seen, handed, submitted, inserted,
                   status, restarts>>

\* the monitor job alone
Next ==
    \/ monitor_task
    \/ send_notification
    \/ send_fallback

Spec == Init /\ [][Next]_vars

\* the monitor job and the /ping handler on one event loop, the site serving
\* documents of at most one block
StatusPages == { <<>> } \cup { <<b>> : b \in SiteBlocks }

monitor_task_status == MonitorCycle(StatusPages)

NextStatus ==
    \/ monitor_task_status
    \/ send_notification
    \/ send_fallback
    \/ ping_command

SpecStatus == Init /\ [][NextStatus]_vars

-----------------------------------------------------------------------------
(* Extraction alone: a fetched document, then extract_profiles on it *)

InitExtract ==
    /\ page \in Pages
    /\ profiles = <<>>
    /\ db = [exists |-> FALSE, rows |-> <<>>]
    /\ pc = "fetched"
    /\ new_profiles = <<>>
    /\ idx = 1
    /\ cycle = 0
    /\ sent = <<>>
    /\ calls = <<>>
    /\ cur = NoCycle
    /\ seen = {}
    /\ handed = {}
    /\ submitted = {}
    /\ inserted = {}
    /\ reply = NoReply
    /\ faults = 0
    /\ status = 200
    /\ restarts = <<>>

Extract ==
    /\ pc = "fetched"
    /\ profiles' = extract_profiles([status |-> status, doc |-> page])
    /\ pc' = "extracted"
    /\ UNCHANGED <<page, db, new_profiles, idx, cycle, sent, calls, cur, seen,
                   handed, submitted, inserted, reply, faults,
                   status, restarts>>

SpecExtract == InitExtract /\ [][Extract]_vars

-----------------------------------------------------------------------------
(* The fetch alone: a response of any status with a document as its body *)

\* the final status codes requests.get can hand to line 56 (the HTTP client
\* consumes 100 Continue itself)
Statuses == 101..599

InitFetch ==
    /\ page \in SitePages
    /\ status \in Statuses \cup {NoResponse}
    /\ profiles = <<>>
    /\ db = [exists |-> FALSE, rows |-> <<>>]
    /\ pc = "fetched"
    /\ new_profiles = <<>>
    /\ idx = 1
    /\ cycle = 0
    /\ sent = <<>>
    /\ calls = <<>>
    /\ cur = NoCycle
    /\ seen = {}
    /\ handed = {}
    /\ submitted = {}
    /\ inserted = {}
    /\ reply = NoReply
    /\ faults = 0
    /\ restarts = <<>>

SpecFetch == InitFetch /\ [][Extract]_vars

-----------------------------------------------------------------------------
(* Properties *)

SentUrls == { sent[i].url : i \in 1..Len(sent) }

\* the values of a sequence are pairwise different
NoRepeat(seq) == \A i, j \in 1..Len(seq) : seq[i] = seq[j] => i = j

UrlSeq(profs) == [i \in 1..Len(profs) |-> profs[i].url]

\* the cycle ran get_new_profiles to its return with a successful fetch and
\* no store failure
CleanCycle == cur.fetched = "ok" /\ cur.store_ok /\ ~cur.raised

\* C1: get_new_profiles run twice in a row against the same document, from
\* an empty store and with no fetch or store failure: the first pass reports
\* every extracted entity (url) as new, once, and the second pass reports
\* none as new.
C1_IdempotentDedup ==
    /\ (cycle >= 1 /\ CleanCycle /\ cur.rows0 = <<>>) =>
          /\ Urls(new_profiles) = Urls(profiles)
          /\ NoRepeat(UrlSeq(new_profiles))
    /\ (cur.repeat /\ CleanCycle) => new_profiles = <<>>

\* a second pass over the document of a first pass that found entities
C1_Witness ==
    /\ cur.repeat /\ CleanCycle
    /\ RowUrls(cur.rows0) = Urls(profiles)
    /\ Len(profiles) = 2
    /\ new_profiles = <<>>

InsertedFor(u) == { r \in inserted : r.profile_url = u }

\* C2 as stated: over any sequence of save_profile calls, isNew = true is
\* reported exactly once for every url the calls were made with (the first
\* call inserts and returns true), and the stored rows never change.
C2_ExactlyOncePerUrl ==
    /\ \A u \in submitted : Cardinality(InsertedFor(u)) = 1
    /\ Range(db.rows) = inserted

\* C2, amended: isNew = true is reported at most once per url; a call returns
\* true exactly when the url is not stored yet and the store operation
\* succeeds, and it then inserts the row; a call for a stored url returns
\* false; the stored rows are the rows of the calls that returned true, with
\* the name, photo and first-seen time of that call, whatever later calls
\* carried.
C2_AtMostOncePerUrl ==
    /\ \A u \in submitted : Cardinality(InsertedFor(u)) <= 1
    /\ \A k \in 1..Len(calls) :
          calls[k].is_new <=>
             /\ calls[k].outcome = "ok"
             /\ ~HasUrl(calls[k].before, calls[k].profile.url)
    /\ Range(db.rows) = inserted
    /\ NoRepeat([i \in 1..Len(db.rows) |-> db.rows[i].profile_url])

\* a call for a stored url that carries another name returned false, and the
\* row still has the first name
C2_Witness ==
    \E k \in 1..Len(calls), i \in 1..Len(db.rows) :
        /\ HasUrl(calls[k].before, calls[k].profile.url)
        /\ calls[k].outcome = "ok"
        /\ ~calls[k].is_new
        /\ db.rows[i].profile_url = calls[k].profile.url
        /\ db.rows[i].name # calls[k].profile.name
        /\ db.rows[i].photo_url # calls[k].profile.photo
        /\ db.rows[i].created_at < cycle

\* urls of the page of this cycle that no earlier cycle extracted
FirstSeen == Urls(profiles) \ cur.seen0

Delivered == { i \in 1..Len(sent) : sent[i].ok }

\* the profiles of this cycle for which every bot call failed
Undelivered ==
    { u \in SentUrls : \A i \in 1..Len(sent) : sent[i].url = u => ~sent[i].ok }

CycleOver == pc = "idle" /\ cycle >= 1

\* C3 as stated: when every fetch so far succeeded, after each cycle the
\* store count equals the number of distinct urls extracted so far and the
\* number of entities notified in the cycle equals the number of urls seen
\* for the first time in it.
C3_CountsGivenFetches ==
    (CycleOver /\ cur.fetches_ok) =>
        /\ Len(db.rows) = Cardinality(seen)
        /\ Cardinality(SentUrls) = Cardinality(FirstSeen)

\* C3, amended: when every fetch and every store operation so far succeeded,
\* after each cycle the store count equals the number of distinct urls
\* extracted so far, the entities handed to the Notifier in the cycle are
\* the urls seen for the first time in it, and the messages delivered are
\* one for each of them except those whose sends all failed.
C3_Counts ==
    (CycleOver /\ cur.fetches_ok /\ cur.stores_ok) =>
        /\ Len(db.rows) = Cardinality(seen)
        /\ SentUrls = FirstSeen
        /\ Cardinality(SentUrls) = Len(new_profiles)
        /\ Cardinality(Delivered) =
              Cardinality(FirstSeen) - Cardinality(Undelivered)

\* a second cycle whose page adds one url to the one already stored
C3_Witness ==
    /\ CycleOver /\ cur.fetches_ok /\ cur.stores_ok
    /\ cycle = 2
    /\ Len(cur.rows0) = 1
    /\ Len(profiles) = 2
    /\ Len(db.rows) = 2
    /\ Cardinality(Delivered) = 1

IsPrefix(s, t) == Len(s) <= Len(t) /\ SubSeq(t, 1, Len(s)) = s

\* C4: the store is append-only: no step (monitor cycle with its
\* init_database, bot call, status query) removes or changes a stored row,
\* so the count never decreases; init_database on an existing table changes
\* nothing.
C4_AppendOnly ==
    /\ [](db.exists => init_database(db, "ok").db = db)
    /\ [][IsPrefix(db.rows, db'.rows)]_vars

\* a second monitor_task ran init_database over stored rows, and a status
\* query read them
C4_Witness ==
    /\ cycle = 2
    /\ cur.rows0 # <<>>
    /\ IsPrefix(cur.rows0, db.rows)
    /\ reply.replied /\ reply.count = Some(Len(db.rows)) /\ reply.time = 2

\* C5 as stated: a cycle whose fetch fails returns no new entity, leaves the
\* store unchanged and sends nothing; a later cycle whose fetch succeeds
\* reports as new every entity of the page that is not in the store.
C5_RetryGivenFetch ==
    /\ cur.fetched = "error" =>
          new_profiles = <<>> /\ db.rows = cur.rows0 /\ sent = <<>> /\ pc = "idle"
    /\ (cur.fetched = "ok" /\ cur.failed_before) =>
          Urls(new_profiles) = Urls(profiles) \ RowUrls(cur.rows0)

\* C5, amended: the same, for a later cycle whose fetch succeeds and in
\* which no store operation fails.
C5_FetchFailure ==
    /\ cur.fetched = "error" =>
          new_profiles = <<>> /\ db.rows = cur.rows0 /\ sent = <<>> /\ pc = "idle"
    /\ (cur.fetched = "ok" /\ cur.failed_before /\ cur.store_ok /\ ~cur.raised) =>
          /\ Urls(new_profiles) = Urls(profiles) \ RowUrls(cur.rows0)
          /\ NoRepeat(UrlSeq(new_profiles))

\* after a cycle whose fetch failed, a cycle reports the entities of its page
C5_Witness ==
    /\ cur.fetched = "ok" /\ cur.failed_before /\ cur.store_ok
    /\ cur.rows0 = <<>>
    /\ Len(new_profiles) = 2

ProfileOf(u) == CHOOSE p \in Range(new_profiles) : p.url = u

PhotoFailed(i) == sent[i].api = "send_photo" /\ ~sent[i].ok

\* C6: after a failed send_photo for an entity, exactly one more bot call is
\* made for it: a send_message (no photo) whose text contains the entity's
\* name and url.
C6_Degradation ==
    \A i \in 1..Len(sent) :
        PhotoFailed(i) =>
            IF i = Len(sent) THEN pc = "fallback" /\ new_profiles[idx].url = sent[i].url
            ELSE /\ { j \in (i + 1)..Len(sent) : sent[j].url = sent[i].url } = {i + 1}
                 /\ sent[i + 1].api = "send_message"
                 /\ sent[i + 1].photo = None
                 /\ Contains(sent[i + 1].text, ProfileOf(sent[i].url).name)
                 /\ Contains(sent[i + 1].text, sent[i].url)

\* the photo of the first of two new entities failed, its text was sent and
\* the second entity has been handled
C6_Witness ==
    /\ Len(sent) = 3
    /\ PhotoFailed(1)
    /\ sent[2].fallback /\ sent[2].ok
    /\ sent[3].url # sent[1].url
    /\ pc = "idle"

HandedCycles(u) == { h.cycle : h \in { g \in handed : g.url = u } }

\* C7: the bot is called for a url in at most one cycle; every url it was
\* called for is in the store, and no call of a cycle is for a url that was
\* stored before the cycle.
C7_NotifiedOnce ==
    /\ \A h \in handed :
          /\ Cardinality(HandedCycles(h.url)) <= 1
          /\ h.url \in RowUrls(db.rows)
    /\ \A i \in 1..Len(sent) : ~HasUrl(cur.rows0, sent[i].url)

\* both calls for a url failed in the first cycle; the second cycle
\* extracted the url again and ended without a call for it
C7_Witness ==
    \E h1, h2 \in handed :
        /\ h1.url = h2.url /\ h1.cycle = 1 /\ h2.cycle = 1
        /\ ~h1.fallback /\ ~h1.ok /\ h2.fallback /\ ~h2.ok
        /\ cycle = 2 /\ CleanCycle /\ pc = "idle"
        /\ h1.url \in Urls(profiles)
        /\ h1.url \notin SentUrls
        /\ h1.url \in RowUrls(db.rows)

-----------------------------------------------------------------------------
(* Properties of extraction, under SpecExtract *)

\* positions of the blocks of the page that the class test T selects
Positions(T(_)) == { i \in 1..Len(page) : T(page[i]) }

\* the blocks at the positions P, in document order
RECURSIVE BlocksAt(_, _)
BlocksAt(P, i) ==
    IF i > Len(page) THEN <<>>
    ELSE IF i \in P THEN <<page[i]>> \o BlocksAt(P, i + 1)
    ELSE BlocksAt(P, i + 1)

\* the blocks extraction works on: those of the primary selector, those of
\* the secondary one when the primary selects none
Candidates ==
    IF Positions(primary_match) # {}
    THEN BlocksAt(Positions(primary_match), 1)
    ELSE BlocksAt(Positions(secondary_match), 1)

Linked(blocks) == SelectSeq(blocks, has_link)

\* C8: a block without an anchor, or whose anchor has no link target, among
\* the profile blocks does not stop extraction: the result is the entities of
\* the blocks with a link, in document order, one per block, and no entity
\* has an empty url.
C8_BlockIsolation ==
    pc = "extracted" =>
        LET valid == Linked(Candidates)
        IN  /\ Len(profiles) = Len(valid)
            /\ \A k \in 1..Len(valid) :
                  /\ profiles[k].url = absolutize(valid[k].a[1].href[1])
                  /\ profiles[k].name = block_name(valid[k])
                  /\ profiles[k].photo = block_photo(valid[k])
            /\ \A k \in 1..Len(profiles) : profiles[k].url # <<>>

\* two profile blocks with a link and a block without between them
C8_Witness ==
    /\ pc = "extracted"
    /\ Len(Candidates) = 3
    /\ has_link(Candidates[1]) /\ ~has_link(Candidates[2]) /\ has_link(Candidates[3])
    /\ Len(profiles) = 2

\* C9: when no block matches the primary selector and some block matches
\* the secondary one, extraction returns the entities of the secondary
\* blocks (not an empty list when one of them has a link); when a block
\* matches the primary selector, only the primary blocks are used.
C9_FallbackOrder ==
    pc = "extracted" =>
        LET prim == Positions(primary_match)
            sec  == Positions(secondary_match)
            from(P) == Linked(BlocksAt(P, 1))
            urls(P) == [k \in 1..Len(from(P)) |->
                            absolutize(from(P)[k].a[1].href[1])]
        IN  /\ (prim = {} /\ sec # {}) =>
                  /\ UrlSeq(profiles) = urls(sec)
                  /\ (\E i \in sec : has_link(page[i])) => profiles # <<>>
            /\ prim # {} => UrlSeq(profiles) = urls(prim)

\* no primary block, and a secondary block gave an entity
C9_Witness ==
    /\ pc = "extracted"
    /\ Positions(primary_match) = {}
    /\ Positions(secondary_match) # {}
    /\ Len(profiles) = 1
    /\ Len(page) = 2

IsAbsolute(u) ==
    \/ StartsWith(u, <<"h","t","t","p",":","/","/">>)
    \/ StartsWith(u, <<"h","t","t","p","s",":","/","/">>)

\* the reference u resolved against the site origin
Resolved(u) ==
    IF IsAbsolute(u) THEN u
    ELSE IF StartsWith(u, <<"/","/">>) THEN <<"h","t","t","p","s",":">> \o u
    ELSE IF StartsWith(u, <<"/">>) THEN SITE_PREFIX \o u
    ELSE SITE_PREFIX \o <<"/">> \o u

\* C10: every extracted entity has an absolute url and an absent or
\* absolute photo, each the link target or image source of its block
\* resolved against the site origin.
C10_Normalization ==
    pc = "extracted" =>
        LET valid == Linked(Candidates)
        IN  \A k \in 1..Len(profiles) :
                /\ IsAbsolute(profiles[k].url)
                /\ profiles[k].url = Resolved(valid[k].a[1].href[1])
                /\ profiles[k].photo # None =>
                      /\ IsAbsolute(profiles[k].photo[1])
                      /\ profiles[k].photo[1] = Resolved(valid[k].img[1].src[1])

-----------------------------------------------------------------------------
(* Properties of the status query and of failures *)

\* C11: every /ping is answered, and the answer carries the time, the store
\* count, the store health and the page check, also when the store cannot be
\* opened or queried.
C11_AlwaysReplies ==
    reply.asked =>
        /\ reply.replied
        /\ reply.page_status # "none"
        /\ (reply.db_ok => reply.count # None)

\* C12: no store failure escapes a cycle: whatever the store does, no
\* exception ends monitor_task, save_profile is called for every candidate
\* of the cycle, and a candidate whose call failed is not reported new.
C12_FailureContained ==
    cycle >= 1 =>
        /\ ~cur.raised
        /\ Len(calls) = Len(profiles)
        /\ \A k \in 1..Len(calls) :
              calls[k].outcome # "ok" => calls[k].profile \notin Range(new_profiles)

\* a step of the event loop that is not a step of the monitor job
StatusStep == cycle' = cycle /\ sent' = sent /\ pc' = pc

\* C15: a status query leaves the store and the monitor job as they are,
\* wherever it interleaves with a cycle, so a cycle without store failure
\* reports as new the urls of its page that were not stored at its start.
C15_StatusReadsOnly ==
    /\ [][StatusStep =>
            UNCHANGED <<db, new_profiles, idx, calls, profiles, page, inserted>>]_vars
    /\ [](CleanCycle =>
            Urls(new_profiles) = Urls(profiles) \ RowUrls(cur.rows0))

\* a status query answered between the two bot calls for a new profile
C15_Witness ==
    /\ pc = "fallback"
    /\ reply.replied /\ reply.time = cycle
    /\ reply.count = Some(Len(db.rows))
    /\ Len(db.rows) >= 1
    /\ Len(sent) = 1

FirstCalls == SelectSeq(sent, LAMBDA c : ~c.fallback)

\* profiles of new_profiles the loop of send_notification has started on
Started ==
    IF new_profiles = <<>> THEN 0
    ELSE IF pc = "idle" THEN Len(new_profiles)
    ELSE IF pc = "notify" THEN idx - 1
    ELSE idx

CallsFor(u) == { i \in 1..Len(sent) : sent[i].url = u }

\* C17: every new entity of a cycle gets its own delivery attempt, whatever
\* the sends for the entities before it did: the first calls made are those
\* for new_profiles in order, all of them once the cycle is over; an entity
\* whose first call succeeded got exactly that one call.
C17_PerEntityDelivery ==
    /\ UrlSeq(FirstCalls) = SubSeq(UrlSeq(new_profiles), 1, Started)
    /\ \A i \in 1..Len(sent) :
          (~sent[i].fallback /\ sent[i].ok) => CallsFor(sent[i].url) = {i}

\* both calls for the first of two new entities failed and the second
\* entity got its call
C17_Witness ==
    /\ Len(new_profiles) = 2 /\ pc = "idle"
    /\ Len(sent) = 3
    /\ ~sent[1].ok /\ ~sent[2].ok /\ sent[2].url = sent[1].url
    /\ sent[3].url = new_profiles[2].url /\ sent[3].ok

\* C18: the text with the note that the photo could not be attached is sent
\* only right after a failed send_photo for the same entity; an entity
\* without photo gets one send_message and never that text.
C18_FallbackOnlyAfterPhoto ==
    \A i \in 1..Len(sent) :
        /\ sent[i].fallback =>
              /\ i > 1
              /\ sent[i - 1].api = "send_photo"
              /\ ~sent[i - 1].ok
              /\ sent[i - 1].url = sent[i].url
        /\ (~sent[i].fallback /\ sent[i].api = "send_message") =>
              CallsFor(sent[i].url) = {i}

\* position of the first profile with url u in the list profs
FirstPos(profs, u) ==
    CHOOSE i \in 1..Len(profs) :
        profs[i].url = u /\ \A j \in 1..(i - 1) : profs[j].url # u

\* the save_profile calls of the cycle that returned True, in call order
NewCalls == SelectSeq(calls, LAMBDA c : c.is_new)

\* C20: new_profiles holds the extracted profiles that save_profile reported
\* new, in the order of extraction; the bot calls of a cycle follow the order
\* of new_profiles (every call for x before any call for a later y); and all
\* save_profile calls of the cycle are made before its first bot call: no bot
\* step changes the store.
C20_ExtractionOrder ==
    /\ [](/\ (cycle >= 1 /\ ~cur.raised) =>
                /\ \A k \in 1..Len(calls) : calls[k].profile = profiles[k]
                /\ new_profiles = [k \in 1..Len(NewCalls) |-> NewCalls[k].profile]
          /\ \A i, j \in 1..Len(sent) :
                i < j => FirstPos(new_profiles, sent[i].url)
                            <= FirstPos(new_profiles, sent[j].url)
          /\ sent # <<>> =>
                /\ Len(calls) = Len(profiles)
                /\ Urls(new_profiles) \subseteq RowUrls(db.rows))
    /\ [][sent' # sent /\ sent' # <<>> => db' = db /\ calls' = calls]_vars

\* two new entities: both calls for the first, then the call for the second
C20_Witness ==
    /\ Len(new_profiles) = 2 /\ Len(profiles) = 2
    /\ Len(sent) = 3
    /\ sent[1].url = new_profiles[1].url /\ sent[2].url = new_profiles[1].url
    /\ sent[3].url = new_profiles[2].url
    /\ new_profiles[1].url = profiles[1].url

\* C16: a response whose status is not 2xx (1xx, 3xx, 4xx, 5xx) is a fetch
\* error like a transport failure: its body is not parsed and the fetch
\* yields no entities.
C16_Non2xxIsError ==
    (pc = "extracted" /\ status \notin 200..299) => profiles = <<>>

-----------------------------------------------------------------------------
(* The monitor job across restarts of the process *)

\* urls of the new profiles send_notification has made no bot call for yet
Unnotified ==
    { new_profiles[k].url : k \in (Started + 1)..Len(new_profiles) }

\* the process stops at any point and main() runs again (lines 228-248):
\* the job and its local lists are gone, profiles.db is what it was
restart ==
    /\ Len(restarts) < MaxRestarts
    /\ restarts' = Append(restarts, [cycle |-> cycle, lost |-> Unnotified])
    /\ pc' = "idle"
    /\ new_profiles' = <<>>
    /\ idx' = 1
    /\ UNCHANGED <<page, profiles, db, cycle, sent, calls, cur, seen, handed,
                   submitted, inserted, reply, faults, status>>

NextRestart ==
    \/ monitor_task_status
    \/ send_notification
    \/ send_fallback
    \/ restart

SpecRestart == Init /\ [][NextRestart]_vars

\* C19: delivery is at least once across restarts: when the process stopped
\* after a url was stored and before a bot call was made for it, a later
\* cycle that fetches a page with that url, without any failure, has a bot
\* call made for it by the time it is over.
C19_AtLeastOnceAcrossRestarts ==
    \A r \in 1..Len(restarts) : \A u \in restarts[r].lost :
        (/\ cycle > restarts[r].cycle
         /\ pc = "idle"
         /\ CleanCycle
         /\ u \in Urls(profiles)
         /\ \A i \in 1..Len(sent) : sent[i].ok)
            => \E h \in handed : h.url = u

-----------------------------------------------------------------------------
(* The monitor job with the page fetch as a step of its own *)

\* line 55: requests.get(URL_TO_MONITOR, headers=headers) passes no timeout,
\* so the call waits for the response as long as the server keeps the
\* connection open (line 187, in ping_command, passes timeout=10)
fetch_timeout == None

\* lines 242-244, 214-216: the job queue starts monitor_task, which gets as
\* far as the call of requests.get
job_start ==
    /\ pc = "idle"
    /\ cycle < MaxCycles
    /\ pc' = "fetching"
    /\ UNCHANGED <<page, profiles, db, new_profiles, idx, cycle, sent, calls,
                   cur, seen, handed, submitted, inserted, reply, faults,
                   status, restarts>>

\* requests.get returns or raises, and the rest of the cycle up to the first
\* bot call follows
fetch_returns == pc = "fetching" /\ CycleBody(StatusPages)

NextLive ==
    \/ job_start
    \/ fetch_returns
    \/ send_notification
    \/ send_fallback

\* the event loop runs what is ready, and the bot calls are bounded by the
\* time limits of the bot library; requests.get is bound to return only when
\* it has a timeout
SpecLive ==
    /\ Init
    /\ [][NextLive]_vars
    /\ WF_vars(job_start)
    /\ WF_vars(send_notification)
    /\ WF_vars(send_fallback)
    /\ WF_vars(fetch_timeout # None /\ fetch_returns)

\* C13: every monitor cycle that started completes: the page fetch is bounded
\* by a timeout, so a server that accepts the connection and never responds
\* cannot keep the cycle from finishing.
C13_CycleCompletes == (pc # "idle") ~> (pc = "idle")

====
